---- MODULE Spec2Model ----
(***************************************************************************)
(* Classifier configurations of SecuML                                     *)
(* (secuml/core/classif/conf/classifiers/__init__.py): the paradigm        *)
(* classification of a configuration class, the configuration factory,    *)
(* the interpretability predicates and the per-paradigm extraction of the  *)
(* supervision vector.                                                     *)
(***************************************************************************)
EXTENDS Integers, Sequences, FiniteSets, TLC

VARIABLES
    heap,       \* the arrays held by the annotations store, by address
    ret,        \* the last call of a configuration method and its outcome
    methods,    \* ConfFactory.methods: registry key -> configuration class
    fret        \* the last call of the factory / of a pure function

vars == <<heap, ret, methods, fret>>

(***************************************************************************)
(* Bounds.                                                                 *)
(***************************************************************************)
MaxLen == 2         \* number of instances of the dataset
MaxMethods == 3     \* number of classes registered in the factory

(***************************************************************************)
(* Python values held in the numpy object arrays.                          *)
(***************************************************************************)
None == [t |-> "none"]
BoolV(b) == [t |-> "bool", b |-> b]
IntV(n) == [t |-> "int", n |-> n]
StrV(s) == [t |-> "str", s |-> s]

\* Binary labels and family names an annotated instance carries.
Labels == {BoolV(FALSE), BoolV(TRUE)}
FamilyNames == {"other", "7"}
Families == {StrV(s) : s \in FamilyNames}

\* int(s) for the strings of the model; a string outside the table is not
\* an integer literal and int(s) raises ValueError.
DecimalValue == [s \in {"7"} |-> 7]

\* str(n) for the integers of the model.
DecimalString(n) == CASE n = -1 -> "-1"
                      [] n = 0 -> "0"
                      [] n = 1 -> "1"
                      [] n = 7 -> "7"

\* Outcomes of a call.
Raise(e) == [k |-> "raise", exc |-> e]
ReturnNone == [k |-> "none"]
ReturnArray(a) == [k |-> "array", v |-> a]

\* int(x) of one element, as ndarray.astype('int') applies it.
int(x) == CASE x.t = "bool" -> [ok |-> TRUE, v |-> IntV(IF x.b THEN 1 ELSE 0)]
            [] x.t = "int" -> [ok |-> TRUE, v |-> x]
            [] x.t = "str" -> IF x.s \in DOMAIN DecimalValue
                                THEN [ok |-> TRUE, v |-> IntV(DecimalValue[x.s])]
                                ELSE [ok |-> FALSE, exc |-> "ValueError"]
            [] x.t = "none" -> [ok |-> FALSE, exc |-> "TypeError"]

\* str(x) of one element, as ndarray.astype('str') applies it.
str(x) == CASE x.t = "bool" -> StrV(IF x.b THEN "True" ELSE "False")
            [] x.t = "int" -> StrV(DecimalString(x.n))
            [] x.t = "str" -> x
            [] x.t = "none" -> StrV("None")

\* ndarray.astype(dtype): a new array, or the exception of the first
\* element that cannot be converted.
astype(a, dtype) ==
    IF dtype = "str"
    THEN ReturnArray([i \in DOMAIN a |-> str(a[i])])
    ELSE LET bad == {i \in DOMAIN a : ~int(a[i]).ok}
         IN IF bad = {}
            THEN ReturnArray([i \in DOMAIN a |-> int(a[i]).v])
            ELSE Raise(int(a[CHOOSE i \in bad : \A j \in bad : i <= j]).exc)

(***************************************************************************)
(* The instances / annotations store.  Each of the two annotation sets     *)
(* (ground truth, working annotations) holds an array of binary labels and *)
(* an array of families; get_supervision hands out the array itself.       *)
(***************************************************************************)
AnnotationSets == {"ground_truth", "annotations"}
StoreAddr == AnnotationSets \X {"labels", "families"}
CopyAddr == <<"local", "copy">>

\* instances.get_annotations(ground_truth)
get_annotations(ground_truth) ==
    IF ground_truth THEN "ground_truth" ELSE "annotations"

\* annotations.get_supervision(multiclass): the families when the model is
\* trained on the families, the binary labels otherwise.
Annotations_get_supervision(annotations, multiclass) ==
    IF multiclass THEN <<annotations, "families">>
    ELSE <<annotations, "labels">>

\* The datasets: every instance of an annotation set is either unannotated
\* (label and family unset) or carries a label and a family.
\* A benign instance carries the family "other"; a malicious one "other" or
\* a numbered family.
Annotated ==
    {None} \cup {e \in Labels \X Families :
                    e[1] = BoolV(TRUE) \/ e[2] = StrV("other")}
AnnotationVectors(n) == [1..n -> Annotated]
LabelOf(e) == IF e = None THEN None ELSE e[1]
FamilyOf(e) == IF e = None THEN None ELSE e[2]
Dataset(gt, an) ==
    [a \in StoreAddr |->
        LET src == IF a[1] = "ground_truth" THEN gt ELSE an
        IN [i \in DOMAIN src |->
                IF a[2] = "labels" THEN LabelOf(src[i]) ELSE FamilyOf(src[i])]]
Datasets ==
    UNION {{Dataset(gt, an) : gt \in AnnotationVectors(n),
                              an \in AnnotationVectors(n)} : n \in 0..MaxLen}

\* What of the heap outlives a call: the store's arrays.
Store(h) == [a \in StoreAddr |-> h[a]]

(***************************************************************************)
(* Supervision extraction.  Each operator returns the heap after the call  *)
(* and the outcome of the call.                                            *)
(***************************************************************************)

\* ClassifierConf.get_supervision: a reference to the store's array.
ClassifierConf_get_supervision(multiclass, ground_truth) ==
    Annotations_get_supervision(get_annotations(ground_truth), multiclass)

Unset(a) == {i \in DOMAIN a : a[i] = None}
Distinct(a) == {a[i] : i \in DOMAIN a}

\* SupervisedClassifierConf.get_supervision
Supervised_get_supervision_classes_first(h, multiclass, ground_truth, check) ==
    LET supervision == h[ClassifierConf_get_supervision(multiclass, ground_truth)]
    IN [heap |-> h,
        out |-> IF check /\ Cardinality(Distinct(supervision)) < 2
                  THEN Raise("AtLeastTwoClasses")
                ELSE IF Unset(supervision) # {}
                  THEN Raise("MissingAnnotations")
                ELSE IF multiclass THEN astype(supervision, "str")
                ELSE astype(supervision, "int")]
Supervised_get_supervision_always_checked(h, multiclass, ground_truth, check) ==
    LET supervision == h[ClassifierConf_get_supervision(multiclass, ground_truth)]
    IN [heap |-> h,
        out |-> IF Unset(supervision) # {}
                  THEN Raise("MissingAnnotations")
                ELSE IF Cardinality(Distinct(supervision)) < 2
                  THEN Raise("AtLeastTwoClasses")
                ELSE IF multiclass THEN astype(supervision, "str")
                ELSE astype(supervision, "int")]
Supervised_get_supervision(h, multiclass, ground_truth, check) ==
    LET supervision == h[ClassifierConf_get_supervision(multiclass, ground_truth)]
    IN [heap |-> h,
        out |-> IF Unset(supervision) # {}
                  THEN Raise("MissingAnnotations")
                ELSE IF check /\ Cardinality(Distinct(supervision)) < 2
                  THEN Raise("AtLeastTwoClasses")
                ELSE IF multiclass THEN astype(supervision, "str")
                ELSE astype(supervision, "int")]

\* UnsupervisedClassifierConf inherits ClassifierConf.get_supervision (the
\* class defines `supervision`, not `get_supervision`): the store's array is
\* returned as it is.  multiclass is False for every unsupervised
\* configuration.
Unsupervised_get_supervision(h, ground_truth, check) ==
    [heap |-> h,
     out |-> ReturnArray(h[ClassifierConf_get_supervision(FALSE, ground_truth)])]

\* UnsupervisedClassifierConf.supervision
Unsupervised_supervision(h, ground_truth, check) ==
    [heap |-> h,
     out |-> IF ~ground_truth THEN ReturnNone
             ELSE astype(h[ClassifierConf_get_supervision(FALSE, ground_truth)],
                         "int")]

\* A deepcopy of the array at address a, at a fresh address.
deepcopy_alias(h, a) == [heap |-> h, ref |-> a]
deepcopy(h, a) ==
    [heap |-> [x \in DOMAIN h \cup {CopyAddr} |->
                    IF x = CopyAddr THEN h[a] ELSE h[x]],
     ref |-> CopyAddr]

\* SemiSupervisedClassifierConf.get_supervision
SemiSupervised_get_supervision(h, multiclass, ground_truth, check) ==
    LET c == deepcopy(h, ClassifierConf_get_supervision(multiclass, ground_truth))
        mask_unnanotated == Unset(c.heap[c.ref])
        h2 == [c.heap EXCEPT ![c.ref] =
                  [i \in DOMAIN @ |->
                      IF i \in mask_unnanotated THEN IntV(-1) ELSE @[i]]]
    IN [heap |-> Store(h2), out |-> astype(h2[c.ref], "int")]

(***************************************************************************)
(* Calls of the configuration methods.                                     *)
(***************************************************************************)
NoCall == [op |-> "none"]

Call(op, paradigm, multiclass, ground_truth, check, r) ==
    /\ heap' = r.heap
    /\ ret' = [op |-> op, paradigm |-> paradigm, multiclass |-> multiclass,
               ground_truth |-> ground_truth, check |-> check,
               before |-> heap,
               labels |-> heap[ClassifierConf_get_supervision(multiclass,
                                                              ground_truth)],
               out |-> r.out]
    /\ UNCHANGED <<methods, fret>>

SupervisedGetSupervision ==
    \E multiclass, ground_truth, check \in BOOLEAN :
        Call("get_supervision", "supervised", multiclass, ground_truth, check,
             Supervised_get_supervision(heap, multiclass, ground_truth, check))

UnsupervisedGetSupervision ==
    \E ground_truth, check \in BOOLEAN :
        Call("get_supervision", "unsupervised", FALSE, ground_truth, check,
             Unsupervised_get_supervision(heap, ground_truth, check))

UnsupervisedSupervision ==
    \E ground_truth, check \in BOOLEAN :
        Call("supervision", "unsupervised", FALSE, ground_truth, check,
             Unsupervised_supervision(heap, ground_truth, check))

SemiSupervisedGetSupervision ==
    \E multiclass, ground_truth, check \in BOOLEAN :
        Call("get_supervision", "semisupervised", multiclass, ground_truth,
             check,
             SemiSupervised_get_supervision(heap, multiclass, ground_truth,
                                            check))

InitSupervision ==
    /\ heap \in Datasets
    /\ ret = NoCall
    /\ methods = <<>>
    /\ fret = NoCall

NextSupervision ==
    \/ SupervisedGetSupervision
    \/ UnsupervisedGetSupervision
    \/ UnsupervisedSupervision
    \/ SemiSupervisedGetSupervision

SpecSupervision == InitSupervision /\ [][NextSupervision]_vars

(***************************************************************************)
(* Configuration classes.  A class is known by its name, by which of the  *)
(* four abstractions of this module it derives from (issubclass), and, for *)
(* a leaf, by what its abstract methods answer.                            *)
(***************************************************************************)
Class(name, bases, model_class, probabilist, feature_importance) ==
    [name |-> name, bases |-> bases, model_class |-> model_class,
     probabilist |-> probabilist, feature_importance |-> feature_importance]

Abstract(name, bases) == Class(name, bases, "", FALSE, None)

LogisticRegressionConf ==
    Class("LogisticRegressionConf",
          {"SupervisedClassifierConf", "ClassifierConf"},
          "LogisticRegression", TRUE, StrV("weight"))
DecisionTreeConf ==
    Class("DecisionTreeConf", {"SupervisedClassifierConf", "ClassifierConf"},
          "DecisionTreeClassifier", TRUE, StrV("score"))
IsolationForestConf ==
    Class("IsolationForestConf",
          {"UnsupervisedClassifierConf", "ClassifierConf"},
          "IsolationForest", FALSE, None)
LabelPropagationConf ==
    Class("LabelPropagationConf",
          {"SemiSupervisedClassifierConf", "ClassifierConf"},
          "LabelPropagation", TRUE, None)
AlreadyTrainedConf ==
    Class("AlreadyTrainedConf", {"ClassifierConf"}, "AlreadyTrained", FALSE,
          None)
\* A leaf written against ClassifierConf itself, outside the three paradigms.
CustomConf ==
    Class("CustomConf", {"ClassifierConf"}, "Custom", FALSE, StrV("score"))

\* The classes a factory may hold: leaves deriving from ClassifierConf.
ConfClasses ==
    {LogisticRegressionConf, DecisionTreeConf, IsolationForestConf,
     LabelPropagationConf, AlreadyTrainedConf, CustomConf}

\* Every class get_classifier_type may be asked about: the leaves, the
\* abstractions themselves, classes deriving from several paradigm bases, and
\* classes that are no classifier configuration.
ParadigmBases ==
    {"UnsupervisedClassifierConf", "SemiSupervisedClassifierConf",
     "SupervisedClassifierConf"}
MixedName(b) ==
    CASE b = {"UnsupervisedClassifierConf", "SemiSupervisedClassifierConf"}
            -> "UnsupervisedSemiSupervisedConf"
      [] b = {"UnsupervisedClassifierConf", "SupervisedClassifierConf"}
            -> "UnsupervisedSupervisedConf"
      [] b = {"SemiSupervisedClassifierConf", "SupervisedClassifierConf"}
            -> "SemiSupervisedSupervisedConf"
      [] b = ParadigmBases -> "AllParadigmsConf"
AllClasses ==
    ConfClasses
    \cup {Abstract("ClassifierConf", {"ClassifierConf"})}
    \cup {Abstract(b, {b, "ClassifierConf"}) : b \in ParadigmBases}
    \cup {Abstract(MixedName(b), b \cup {"ClassifierConf"}) :
             b \in {x \in SUBSET ParadigmBases : Cardinality(x) >= 2}}
    \cup {Abstract("HyperparamConf", {}), Abstract("Conf", {})}

issubclass(class_, base) == base \in class_.bases

\* class ClassifierType(Enum)
ClassifierType ==
    [unsupervised |-> [enum |-> "ClassifierType", name |-> "unsupervised"],
     semisupervised |-> [enum |-> "ClassifierType", name |-> "semisupervised"],
     supervised |-> [enum |-> "ClassifierType", name |-> "supervised"]]
ClassifierTypes ==
    {ClassifierType.unsupervised, ClassifierType.semisupervised,
     ClassifierType.supervised}

Return(v) == [k |-> "return", v |-> v]
RaiseMsg(e, msg) == [k |-> "raise", exc |-> e, msg |-> msg]

\* get_classifier_type(class_)
get_classifier_type_supervised_first(class_) ==
    IF issubclass(class_, "SupervisedClassifierConf")
      THEN Return(ClassifierType.supervised)
    ELSE IF issubclass(class_, "SemiSupervisedClassifierConf")
      THEN Return(ClassifierType.semisupervised)
    ELSE IF issubclass(class_, "UnsupervisedClassifierConf")
      THEN Return(ClassifierType.unsupervised)
    ELSE IF issubclass(class_, "ClassifierConf")
      THEN Return(None)
    ELSE RaiseMsg("ValueError",
                  <<class_.name, " is not a classifier configuration.">>)
get_classifier_type(class_) ==
    IF issubclass(class_, "UnsupervisedClassifierConf")
      THEN Return(ClassifierType.unsupervised)
    ELSE IF issubclass(class_, "SemiSupervisedClassifierConf")
      THEN Return(ClassifierType.semisupervised)
    ELSE IF issubclass(class_, "SupervisedClassifierConf")
      THEN Return(ClassifierType.supervised)
    ELSE IF issubclass(class_, "ClassifierConf")
      THEN Return(None)
    ELSE RaiseMsg("ValueError",
                  <<class_.name, " is not a classifier configuration.">>)

(***************************************************************************)
(* Configuration objects.                                                  *)
(***************************************************************************)

\* ClassifierConf.__init__, with _set_characteristics and _set_model_class.
ClassifierConf_init(class_, multiclass, hyperparam_conf) ==
    [class |-> class_,
     multiclass |-> multiclass,
     hyperparam_conf |-> hyperparam_conf,
     accept_sparse |-> FALSE,
     probabilist |-> class_.probabilist,
     feature_importance |-> class_.feature_importance,
     model_class |-> class_.model_class,
     model_class_name |-> class_.model_class]

\* SupervisedClassifierConf.__init__
SupervisedClassifierConf_init(class_, multiclass, hyperparam_conf) ==
    ClassifierConf_init(class_, multiclass, hyperparam_conf)

\* UnsupervisedClassifierConf.__init__
UnsupervisedClassifierConf_init(class_, hyperparam_conf) ==
    ClassifierConf_init(class_, FALSE, hyperparam_conf)

\* SemiSupervisedClassifierConf.__init__
SemiSupervisedClassifierConf_init(class_, multiclass, hyperparam_conf) ==
    ClassifierConf_init(class_, multiclass, hyperparam_conf)

\* The constructor a leaf of each paradigm reaches.
Construct(class_, multiclass, hyperparam_conf) ==
    IF issubclass(class_, "UnsupervisedClassifierConf")
      THEN UnsupervisedClassifierConf_init(class_, hyperparam_conf)
    ELSE IF issubclass(class_, "SemiSupervisedClassifierConf")
      THEN SemiSupervisedClassifierConf_init(class_, multiclass,
                                             hyperparam_conf)
    ELSE IF issubclass(class_, "SupervisedClassifierConf")
      THEN SupervisedClassifierConf_init(class_, multiclass, hyperparam_conf)
    ELSE ClassifierConf_init(class_, multiclass, hyperparam_conf)

\* class_.from_args(args, hyper_conf, logger) of a leaf
Leaf_from_args(class_, args, hyper_conf) ==
    Construct(class_, args.multiclass, hyper_conf)

\* class_.from_json(multiclass, hyper_conf, obj, logger) of a leaf
Leaf_from_json(class_, multiclass, hyper_conf, obj) ==
    Construct(class_, multiclass, hyper_conf)

\* ClassifierConf.is_interpretable
is_interpretable_weight_only(conf) ==
    conf.feature_importance = StrV("weight")
is_interpretable(conf) ==
    conf.feature_importance \in {StrV("score"), StrV("weight")}

\* ClassifierConf.interpretable_predictions
interpretable_predictions(conf) ==
    conf.feature_importance = StrV("weight")

\* ClassifierConf.get_exp_name
get_exp_name(conf) ==
    IF conf.multiclass THEN <<conf.model_class_name, "__Multiclass">>
    ELSE <<conf.model_class_name>>

\* ClassifierConf.fields_to_export
fields_to_export ==
    <<<<"hyperparam_conf", "obj">>,
      <<"multiclass", "primitive">>,
      <<"probabilist", "primitive">>,
      <<"feature_importance", "primitive">>,
      <<"model_class_name", "primitive">>>>

(***************************************************************************)
(* The hyperparameter sub-configuration and the generic export.            *)
(***************************************************************************)
HyperValues == {"l1", "l2"}
Args == [multiclass : BOOLEAN, penalty : HyperValues]

\* HyperparamConf.from_args(args, class_, is_supervised, logger)
HyperparamConf_from_args(args, class_, is_supervised) ==
    [model_class |-> class_.model_class, values |-> args.penalty,
     is_supervised |-> is_supervised]

\* HyperparamConf.export
HyperparamConf_export(h) ==
    ("__type__" :> "HyperparamConf") @@ ("values" :> h.values)
        @@ ("is_supervised" :> h.is_supervised)

\* HyperparamConf.from_json(obj, class_, logger)
HyperparamConf_from_json(obj, class_) ==
    [model_class |-> class_.model_class, values |-> obj["values"],
     is_supervised |-> obj["is_supervised"]]

\* Conf.export: the class name and the fields of fields_to_export, an
\* object field (the nested hyperparameter configuration) by its own export,
\* a primitive field as it is.
Conf_export(conf) ==
    LET fields == fields_to_export
        how(f) == fields[CHOOSE i \in DOMAIN fields : fields[i][1] = f][2]
    IN [f \in {"__type__"} \cup {fields[i][1] : i \in DOMAIN fields} |->
           IF f = "__type__" THEN conf.class.name
           ELSE IF how(f) = "primitive" THEN conf[f]
           ELSE HyperparamConf_export(conf[f])]

(***************************************************************************)
(* The factory.  methods is the registry in insertion order, a sequence of *)
(* <<key, class>>.                                                         *)
(***************************************************************************)
MethodNames ==
    {"LogisticRegression", "DecisionTree", "IsolationForest",
     "LabelPropagation", "AlreadyTrained", "Custom", "Sssvdd"}

\* method + 'Conf'
ConfKey(method) ==
    CASE method = "LogisticRegression" -> "LogisticRegressionConf"
      [] method = "DecisionTree" -> "DecisionTreeConf"
      [] method = "IsolationForest" -> "IsolationForestConf"
      [] method = "LabelPropagation" -> "LabelPropagationConf"
      [] method = "AlreadyTrained" -> "AlreadyTrainedConf"
      [] method = "Custom" -> "CustomConf"
      [] method = "Sssvdd" -> "SssvddConf"

HasKey(m, key) == \E i \in DOMAIN m : m[i][1] = key
Lookup(m, key) == m[CHOOSE i \in DOMAIN m : m[i][1] = key][2]

\* ConfFactory.register(class_name, class_obj)
ConfFactory_register(m, class_name, class_obj) ==
    IF HasKey(m, class_name)
    THEN [i \in DOMAIN m |->
            IF m[i][1] = class_name THEN <<class_name, class_obj>> ELSE m[i]]
    ELSE Append(m, <<class_name, class_obj>>)

\* ConfFactory.get_methods: the keys without their 'Conf' suffix.
ConfFactory_get_methods(m) ==
    [i \in DOMAIN m |->
        CHOOSE method \in MethodNames : ConfKey(method) = m[i][1]]

\* ConfFactory.get_class(method)
ConfFactory_get_class(m, method) == Lookup(m, ConfKey(method))

\* ClassifierConfFactory.from_args: the calls made to the hyperparameter
\* subsystem and to the leaf, and the outcome.
ClassifierConfFactory_from_args_always_supervised(m, method, args) ==
    IF ~HasKey(m, ConfKey(method))
    THEN [calls |-> <<>>, out |-> Raise("KeyError")]
    ELSE
      LET class_ == Lookup(m, ConfKey(method))
          hyper_conf == HyperparamConf_from_args(args, class_, TRUE)
      IN IF method # "AlreadyTrained"
         THEN [calls |-> <<[fn |-> "HyperparamConf.from_args",
                            class_ |-> class_.name,
                            is_supervised |-> TRUE],
                           [fn |-> "class_.from_args",
                            class_ |-> class_.name,
                            hyper_conf |-> hyper_conf]>>,
               out |-> Return(Leaf_from_args(class_, args, hyper_conf))]
         ELSE [calls |-> <<[fn |-> "class_.from_args",
                            class_ |-> class_.name,
                            hyper_conf |-> None]>>,
               out |-> Return(Leaf_from_args(class_, args, None))]
ClassifierConfFactory_from_args(m, method, args) ==
    IF ~HasKey(m, ConfKey(method))
    THEN [calls |-> <<>>, out |-> Raise("KeyError")]
    ELSE
      LET class_ == Lookup(m, ConfKey(method))
          type == get_classifier_type(class_)
          is_supervised == type.v = ClassifierType.supervised
          hyper_conf == HyperparamConf_from_args(args, class_, is_supervised)
      IN IF method # "AlreadyTrained"
         THEN IF type.k = "raise"
              THEN [calls |-> <<>>, out |-> type]
              ELSE [calls |-> <<[fn |-> "HyperparamConf.from_args",
                                 class_ |-> class_.name,
                                 is_supervised |-> is_supervised],
                                [fn |-> "class_.from_args",
                                 class_ |-> class_.name,
                                 hyper_conf |-> hyper_conf]>>,
                    out |-> Return(Leaf_from_args(class_, args, hyper_conf))]
         ELSE [calls |-> <<[fn |-> "class_.from_args",
                            class_ |-> class_.name,
                            hyper_conf |-> None]>>,
               out |-> Return(Leaf_from_args(class_, args, None))]

\* ClassifierConfFactory.from_json
ClassifierConfFactory_from_json(m, obj) ==
    IF ~HasKey(m, obj["__type__"])
    THEN Raise("KeyError")
    ELSE
      LET class_ == Lookup(m, obj["__type__"])
          hyper_conf == HyperparamConf_from_json(obj["hyperparam_conf"], class_)
      IN Return(Leaf_from_json(class_, obj["multiclass"], hyper_conf, obj))

\* ClassifierConfFactory.get_methods
ClassifierConfFactory_get_methods_no_filter(m, classifier_type) ==
    Return(ConfFactory_get_methods(m))
ClassifierConfFactory_get_methods(m, classifier_type) ==
    LET all_classifiers == ConfFactory_get_methods(m)
        type(c) == get_classifier_type(ConfFactory_get_class(m, c))
        raising == {i \in DOMAIN all_classifiers :
                        type(all_classifiers[i]).k = "raise"}
        keep(c) == type(c).v = classifier_type
    IN IF classifier_type = None THEN Return(all_classifiers)
       ELSE IF raising # {}
         THEN type(all_classifiers[CHOOSE i \in raising :
                                       \A j \in raising : i <= j])
       ELSE Return(SelectSeq(all_classifiers, keep))

(***************************************************************************)
(* Calls of the factory and of the configuration predicates.               *)
(***************************************************************************)
Register ==
    \E class_ \in ConfClasses :
        /\ Len(methods) < MaxMethods
        /\ ~HasKey(methods, class_.name)
        /\ methods' = ConfFactory_register(methods, class_.name, class_)
        /\ fret' = [op |-> "register", class_ |-> class_.name]
        /\ UNCHANGED <<heap, ret>>

GetClassifierType ==
    \E class_ \in AllClasses :
        /\ fret' = [op |-> "get_classifier_type", class_ |-> class_,
                    out |-> get_classifier_type(class_)]
        /\ UNCHANGED <<heap, ret, methods>>

FromArgs ==
    \E method \in MethodNames, args \in Args :
        LET r == ClassifierConfFactory_from_args(methods, method, args)
        IN /\ fret' = [op |-> "from_args", method |-> method, args |-> args,
                       calls |-> r.calls, out |-> r.out]
           /\ UNCHANGED <<heap, ret, methods>>

\* The export of a configuration that owns a hyperparameter configuration;
\* what the export of one without (the 'AlreadyTrained' method) produces is
\* outside this module.
Export ==
    /\ fret.op \in {"from_args", "from_json"}
    /\ fret.out.k = "return"
    /\ fret.out.v.hyperparam_conf # None
    /\ fret' = [op |-> "export", origin |-> fret.op, conf |-> fret.out.v,
                out |-> Conf_export(fret.out.v)]
    /\ UNCHANGED <<heap, ret, methods>>

FromJson ==
    /\ fret.op = "export"
    /\ fret' = [op |-> "from_json", origin |-> fret.origin,
                conf |-> fret.conf, obj |-> fret.out,
                out |-> ClassifierConfFactory_from_json(methods, fret.out)]
    /\ UNCHANGED <<heap, ret, methods>>

GetMethods ==
    /\ fret' = [op |-> "get_methods",
                out |-> [t \in ClassifierTypes \cup {None} |->
                            ClassifierConfFactory_get_methods(methods, t)]]
    /\ UNCHANGED <<heap, ret, methods>>

Interpretability ==
    /\ fret.op \in {"from_args", "from_json"}
    /\ fret.out.k = "return"
    /\ fret' = [op |-> "interpretability", conf |-> fret.out.v,
                is_interpretable |-> is_interpretable(fret.out.v),
                interpretable_predictions |->
                    interpretable_predictions(fret.out.v),
                exp_name |-> get_exp_name(fret.out.v)]
    /\ UNCHANGED <<heap, ret, methods>>

InitFactory ==
    /\ heap = Dataset(<<>>, <<>>)
    /\ ret = NoCall
    /\ methods = <<>>
    /\ fret = NoCall

NextFactory ==
    \/ Register
    \/ GetClassifierType
    \/ FromArgs
    \/ Export
    \/ FromJson
    \/ GetMethods
    \/ Interpretability

SpecFactory == InitFactory /\ [][NextFactory]_vars

(***************************************************************************)
(* Properties of the supervision extraction (SpecSupervision).             *)
(***************************************************************************)
IsCall(paradigm) == ret.op = "get_supervision" /\ ret.paradigm = paradigm

\* The integer code of a set label: 0 / 1 for a binary label, the number a
\* family name spells.
HasIntegerCode(x) ==
    x \in Labels \/ (x \in Families /\ x.s \in DOMAIN DecimalValue)
IntegerCode(x) ==
    IF x = BoolV(TRUE) THEN IntV(1)
    ELSE IF x = BoolV(FALSE) THEN IntV(0)
    ELSE IntV(DecimalValue[x.s])

\* C1: a supervised configuration raises MissingAnnotations on every dataset
\* with an unset label, for check true and false and whatever the number of
\* distinct values (the missing-annotations test comes before the two-class
\* test); no vector is returned.
C1_MissingAnnotations ==
    (IsCall("supervised") /\ Unset(ret.labels) # {})
        => ret.out = Raise("MissingAnnotations")

\* A supervised call with check=true on a dataset whose labels are all unset
\* (fewer than two distinct values) raised MissingAnnotations.
C1_Witness ==
    /\ IsCall("supervised")
    /\ ret.check
    /\ Len(ret.labels) > 0
    /\ Distinct(ret.labels) = {None}
    /\ ret.out = Raise("MissingAnnotations")

\* C2: on a fully labeled dataset a supervised configuration raises
\* AtLeastTwoClasses exactly when check=true and fewer than two distinct
\* labels are present; otherwise it returns one label per instance, in
\* order, as an integer when multiclass=false and as a string when
\* multiclass=true.
C2_FullyLabeled ==
    (IsCall("supervised") /\ Unset(ret.labels) = {})
        => LET few == ret.check /\ Cardinality(Distinct(ret.labels)) < 2
           IN /\ (ret.out = Raise("AtLeastTwoClasses")) <=> few
              /\ ~few =>
                   /\ ret.out.k = "array"
                   /\ DOMAIN ret.out.v = DOMAIN ret.labels
                   /\ \A i \in DOMAIN ret.labels :
                        IF ret.multiclass
                        THEN /\ ret.out.v[i].t = "str"
                             /\ ret.out.v[i].s = ret.labels[i].s
                        ELSE ret.out.v[i] = IntegerCode(ret.labels[i])

\* A supervised call with check=false on a fully labeled one-class dataset
\* returned the integer labels.
C2_Witness ==
    /\ IsCall("supervised")
    /\ ~ret.check /\ ~ret.multiclass
    /\ ret.labels = <<BoolV(TRUE), BoolV(TRUE)>>
    /\ ret.out = ReturnArray(<<IntV(1), IntV(1)>>)

\* C3: get_supervision of an unsupervised configuration returns no vector
\* when ground_truth=false, and with ground_truth=true on a fully labeled
\* dataset returns the integer-coded labels without any error, also when
\* only one distinct label is present.
C3_Unsupervised ==
    IsCall("unsupervised")
        => /\ ~ret.ground_truth => ret.out = ReturnNone
           /\ (ret.ground_truth /\ Unset(ret.labels) = {})
                => /\ ret.out.k = "array"
                   /\ DOMAIN ret.out.v = DOMAIN ret.labels
                   /\ \A i \in DOMAIN ret.labels :
                        ret.out.v[i] = IntegerCode(ret.labels[i])

\* C4: get_supervision of a semi-supervised configuration raises neither
\* MissingAnnotations nor AtLeastTwoClasses, whatever labels are unset and
\* whatever check is, and returns a vector of the same length with -1 at
\* every unset position and the integer-coded label at every set position.
C4_SemiSupervised ==
    IsCall("semisupervised")
        => /\ ret.out \notin {Raise("MissingAnnotations"),
                              Raise("AtLeastTwoClasses")}
           /\ ret.out.k = "array"
           /\ DOMAIN ret.out.v = DOMAIN ret.labels
           /\ \A i \in DOMAIN ret.labels :
                IF ret.labels[i] = None THEN ret.out.v[i] = IntV(-1)
                ELSE /\ ret.out.v[i].t = "int"
                     /\ HasIntegerCode(ret.labels[i])
                          => ret.out.v[i] = IntegerCode(ret.labels[i])

\* C10: no call of get_supervision (or of supervision), on any paradigm and
\* whether it returns or raises, changes the arrays of the annotations
\* store; a supervised extraction that follows a semi-supervised one on the
\* same vector with unset labels still raises MissingAnnotations.
C10_StoreUnchanged ==
    [][/\ heap' = heap
       /\ (/\ IsCall("semisupervised")
           /\ Unset(ret.labels) # {}
           /\ ret'.paradigm = "supervised"
           /\ ret'.multiclass = ret.multiclass
           /\ ret'.ground_truth = ret.ground_truth)
            => ret'.out = Raise("MissingAnnotations")]_vars

\* A semi-supervised call replaced an unset label by -1 in its result and
\* the store still holds the unset label.
C10_Witness ==
    /\ IsCall("semisupervised")
    /\ ret.out.k = "array"
    /\ \E i \in DOMAIN ret.labels :
          /\ ret.labels[i] = None
          /\ ret.out.v[i] = IntV(-1)
          /\ heap[ClassifierConf_get_supervision(ret.multiclass,
                                                 ret.ground_truth)][i] = None

(***************************************************************************)
(* Properties of the factory and of the classification (SpecFactory).      *)
(***************************************************************************)
Range(f) == {f[i] : i \in DOMAIN f}
RegisteredMethods == Range(ConfFactory_get_methods(methods))

\* The paradigm bases a class derives from, in the order of the tests.
TestOrder ==
    <<"UnsupervisedClassifierConf", "SemiSupervisedClassifierConf",
      "SupervisedClassifierConf">>
TagOf(base) ==
    CASE base = "UnsupervisedClassifierConf" -> ClassifierType.unsupervised
      [] base = "SemiSupervisedClassifierConf" -> ClassifierType.semisupervised
      [] base = "SupervisedClassifierConf" -> ClassifierType.supervised
Matches(class_) == {i \in DOMAIN TestOrder : TestOrder[i] \in class_.bases}
FirstMatch(class_) ==
    CHOOSE i \in Matches(class_) : \A j \in Matches(class_) : i <= j
\* The tag of a registered leaf, read off its single paradigm base.
LeafTag(class_) ==
    IF Matches(class_) = {} THEN None
    ELSE TagOf(TestOrder[FirstMatch(class_)])

\* C5 as stated: the three filtered lists are pairwise disjoint, each is the
\* subset of get_methods() with that tag, and together they are all of
\* get_methods().
C5_Partition ==
    fret.op = "get_methods"
        => LET of(t) == Range(fret.out[t].v)
           IN /\ \A t, u \in ClassifierTypes : t # u => of(t) \cap of(u) = {}
              /\ \A t \in ClassifierTypes :
                    of(t) = {c \in of(None) :
                               LeafTag(ConfFactory_get_class(methods, c)) = t}
              /\ UNION {of(t) : t \in ClassifierTypes} = of(None)

\* C5 amended: the three filtered lists are pairwise disjoint, each is the
\* subset of get_methods() with that tag, and together they are get_methods()
\* without the methods whose class has no paradigm tag, which appear in none
\* of the three.
C5_PartitionOfTagged ==
    fret.op = "get_methods"
        => LET of(t) == Range(fret.out[t].v)
           IN /\ of(None) = RegisteredMethods
              /\ \A t \in ClassifierTypes \cup {None} : fret.out[t].k = "return"
              /\ \A t, u \in ClassifierTypes : t # u => of(t) \cap of(u) = {}
              /\ \A t \in ClassifierTypes :
                    of(t) = {c \in of(None) :
                               LeafTag(ConfFactory_get_class(methods, c)) = t}
              /\ UNION {of(t) : t \in ClassifierTypes}
                    = {c \in of(None) :
                         LeafTag(ConfFactory_get_class(methods, c)) # None}

\* The lists were computed on a registry holding a supervised, an
\* unsupervised and an untagged class.
C5_Witness ==
    /\ fret.op = "get_methods"
    /\ {"LogisticRegression", "IsolationForest", "AlreadyTrained"}
          \subseteq RegisteredMethods
    /\ Range(fret.out[ClassifierType.supervised].v) = {"LogisticRegression"}
    /\ Range(fret.out[ClassifierType.unsupervised].v) = {"IsolationForest"}

\* C7: get_classifier_type returns the tag of the first of the unsupervised,
\* semi-supervised and supervised bases the class derives from; None for a
\* class deriving from ClassifierConf and from none of the three; a
\* ValueError naming the class for any other class.
C7_ClassifierType ==
    fret.op = "get_classifier_type"
        => LET class_ == fret.class_
           IN IF Matches(class_) # {}
                THEN fret.out = Return(TagOf(TestOrder[FirstMatch(class_)]))
              ELSE IF "ClassifierConf" \in class_.bases
                THEN fret.out = Return(None)
              ELSE /\ fret.out.k = "raise"
                   /\ fret.out.exc = "ValueError"
                   /\ fret.out.msg[1] = class_.name

\* A class deriving from the semi-supervised and the supervised base was
\* classified semi-supervised.
C7_Witness ==
    /\ fret.op = "get_classifier_type"
    /\ fret.class_.bases = {"SemiSupervisedClassifierConf",
                            "SupervisedClassifierConf", "ClassifierConf"}
    /\ fret.out = Return(ClassifierType.semisupervised)

\* C8: is_interpretable() is true exactly for the feature-importance kinds
\* 'score' and 'weight', interpretable_predictions() exactly for 'weight';
\* so the second implies the first and both are false for kind None.
C8_Interpretable ==
    fret.op = "interpretability"
        => LET kind == fret.conf.feature_importance
           IN /\ fret.is_interpretable
                    <=> (kind = StrV("score") \/ kind = StrV("weight"))
              /\ fret.interpretable_predictions <=> kind = StrV("weight")
              /\ fret.interpretable_predictions => fret.is_interpretable
              /\ kind = None => (~fret.is_interpretable
                                 /\ ~fret.interpretable_predictions)

\* A configuration of kind 'score' is interpretable and its predictions are
\* not.
C8_Witness ==
    /\ fret.op = "interpretability"
    /\ fret.conf.feature_importance = StrV("score")
    /\ fret.is_interpretable
    /\ ~fret.interpretable_predictions

\* C9: from_args on an unregistered method fails with a KeyError before any
\* hyperparameter configuration is built; on 'AlreadyTrained' it calls the
\* class's from_args with no hyperparameter configuration; otherwise it
\* builds one hyperparameter configuration, with the supervised flag true
\* exactly for a class tagged supervised, and passes it to the class's
\* from_args.
C9_FromArgs ==
    fret.op = "from_args"
        => LET key == ConfKey(fret.method)
               class_ == Lookup(methods, key)
               built == {i \in DOMAIN fret.calls :
                            fret.calls[i].fn = "HyperparamConf.from_args"}
           IN IF ~HasKey(methods, key)
                THEN fret.out = Raise("KeyError") /\ fret.calls = <<>>
              ELSE IF fret.method = "AlreadyTrained"
                THEN /\ Len(fret.calls) = 1
                     /\ fret.calls[1].fn = "class_.from_args"
                     /\ fret.calls[1].class_ = class_.name
                     /\ fret.calls[1].hyper_conf = None
              ELSE /\ built = {1}
                   /\ Len(fret.calls) = 2
                   /\ fret.calls[1].class_ = class_.name
                   /\ fret.calls[1].is_supervised
                        <=> (LeafTag(class_) = ClassifierType.supervised)
                   /\ fret.calls[2].fn = "class_.from_args"
                   /\ fret.calls[2].class_ = class_.name
                   /\ fret.calls[2].hyper_conf # None
                   /\ fret.calls[2].hyper_conf.is_supervised
                        = fret.calls[1].is_supervised

\* from_args built the hyperparameters of an untagged class with the
\* supervised flag false.
C9_Witness ==
    /\ fret.op = "from_args"
    /\ fret.method = "Custom"
    /\ fret.out.k = "return"
    /\ Len(fret.calls) = 2
    /\ ~fret.calls[1].is_supervised

====
